---- MODULE Spec2Model ----
(***************************************************************************)
(* WilliamBoard: the upload pipeline (extraction, persistence, per         *)
(* candidate moderation / decision / promotion / geocoding), the manual    *)
(* moderation endpoint and the unpublish endpoint, over the relational     *)
(* store (submissions, flyers, event_candidates, events, venues).          *)
(*                                                                         *)
(* Units.  Instants are integers counted in half days (OneDay = 2), a      *)
(* year is scaled to OneYear half days.  Scores are in basis points        *)
(* (0.80 = 8000), quality factors, weights and geocode confidences in      *)
(* percent.  Texts are sequences of one-character strings.                 *)
(*                                                                         *)
(* Each request handler runs on its own goroutine: a handler is a process  *)
(* of Procs, and it is cut into steps at its database operations.          *)
(* The store itself is assumed reachable: a statement of the store that    *)
(* fails does so because of a constraint of the schema.  SpecFault alone   *)
(* lets the statements of a pipeline run fail for lack of the store.       *)
(* SpecFn applies the scorer, the heuristic and the geocoder on their own. *)
(***************************************************************************)
EXTENDS Integers, Sequences, FiniteSets, TLC

\* ------------------------------------------------------------------ bounds
NumProcs == 2
NumSubs == 1
MaxRuns == 2
MaxRunsSeq == 1
MaxTick == 1
NowStart == 8

Procs == 1..NumProcs
SubIds == 1..NumSubs

\* --------------------------------------------------- program constants
OneDay == 2
OneYear == 6
AutoPublishThreshold == 8000
GeoConfThreshold == 75
DefaultModerationScore == 5000

\* fn: the service function last applied on its own, with its input and output
VARIABLES submissions, flyers, candidates, events, venues, procs, now, runs, fn

vars == <<submissions, flyers, candidates, events, venues, procs, now, runs, fn>>

NoFn == [op |-> "none", in |-> <<>>, out |-> <<>>, done |-> FALSE]

\* ------------------------------------------------------------------- texts
UpperCase ==
    <<"A", "B", "C", "D", "E", "F", "G", "H", "I", "J", "K", "L", "M",
      "N", "O", "P", "Q", "R", "S", "T", "U", "V", "W", "X", "Y", "Z">>

LowerCase ==
    <<"a", "b", "c", "d", "e", "f", "g", "h", "i", "j", "k", "l", "m",
      "n", "o", "p", "q", "r", "s", "t", "u", "v", "w", "x", "y", "z">>

ToLowerCh(c) ==
    IF \E i \in 1..Len(UpperCase) : UpperCase[i] = c
    THEN LowerCase[CHOOSE i \in 1..Len(UpperCase) : UpperCase[i] = c]
    ELSE c

ToLower(s) == [i \in 1..Len(s) |-> ToLowerCh(s[i])]

RECURSIVE TrimLeft(_)
TrimLeft(s) == IF s # <<>> /\ Head(s) = " " THEN TrimLeft(Tail(s)) ELSE s

RECURSIVE TrimRight(_)
TrimRight(s) ==
    IF s # <<>> /\ s[Len(s)] = " " THEN TrimRight(SubSeq(s, 1, Len(s) - 1)) ELSE s

TrimSpace(s) == TrimRight(TrimLeft(s))

\* strings.Contains
Contains(s, sub) ==
    \E i \in 1..(Len(s) + 1) :
        i + Len(sub) - 1 <= Len(s) /\ SubSeq(s, i, i + Len(sub) - 1) = sub

\* len(strings.Fields(s)): the maximal runs of non-space characters
NumFields(s) ==
    Cardinality({i \in 1..Len(s) : s[i] # " " /\ (i = 1 \/ s[i - 1] = " ")})

\* ------------------------------------------------------------------- dates
\* A date text is absent, unparsable, or written in one of the layouts the
\* promotion tries and then denotes the instant t.
NoDate == [k |-> "none", t |-> 0]
Garbage == [k |-> "bad", t |-> 0]
DateTxt(t) == [k |-> "abs", t |-> t]

\* time.Format("2006-01-02"): the calendar day of an instant
FormatDate(t) == t \div OneDay

\* ------------------------------------------------------------------ inputs
NoText == <<>>

\* services.EventFields of one extracted event (vision.go); absent optional
\* fields are the empty text / NoDate
Ef(title, dt, venue, address) ==
    [title |-> title, date_time |-> dt, venue |-> venue, address |-> address]

\* "123 Main St, Springfield, IL"
AddrMain ==
    <<"1", "2", "3", " ", "M", "a", "i", "n", " ", "S", "t", ",", " ",
    "S", "p", "r", "i", "n", "g", "f", "i", "e", "l", "d", ",", " ", "I",
    "L">>

FieldSamples ==
    { Ef(<<"J">>, Garbage, NoText, NoText),
      Ef(<<" ", "j">>, NoDate, <<"H">>, <<"a">>),
      Ef(<<"J">>, DateTxt(0), NoText, <<"a">>),
      Ef(NoText, NoDate, NoText, NoText),
      Ef(<<"J">>, DateTxt(NowStart + 1), <<"h">>, NoText) }

Ev(id, f) == [event_id |-> id, fields |-> f, overall |-> 9100]

\* An extraction result: the events of each detected flyer region.
Results ==
    {<<>>}
        \cup {<<[region_id |-> 1, events |-> <<Ev(1, f)>>]>> : f \in FieldSamples}
        \cup {<<[region_id |-> 1,
                 events |-> <<Ev(1, Ef(<<"J">>, Garbage, NoText, NoText)), Ev(2, f)>>]>> :
                f \in {Ef(<<" ", "j">>, NoDate, <<"H">>, <<"a">>)}}

\* image files: a JPEG, or bytes that are no image
Files == {"jpeg", "notimage"}

\* ------------------------------------------------------- moderation service
Factors(a, b, c, d, e, f) ==
    [event_details_complete |-> a, datetime_confidence |-> b, venue_confidence |-> c,
     contact_info_present |-> d, professional_looking |-> e, text_readability |-> f]

FactorSamples == {Factors(80, 80, 80, 80, 80, 80), Factors(79, 79, 79, 79, 79, 79)}

NoReason == "null"

\* calculateQualityScore with the readability weight doubled
calculateQualityScoreHeavy(f) ==
    f.event_details_complete * 25 + f.datetime_confidence * 20
        + f.venue_confidence * 20 + f.contact_info_present * 15
        + f.professional_looking * 15 + f.text_readability * 10

calculateQualityScore(f) ==
    f.event_details_complete * 25 + f.datetime_confidence * 20
        + f.venue_confidence * 20 + f.contact_info_present * 15
        + f.professional_looking * 15 + f.text_readability * 5

Min(a, b) == IF a < b THEN a ELSE b

\* mockModerationResult without the bonus for a title
mockModerationResultNoTitle(fields) ==
    [score |-> Min(10000,
                   7500 + (IF TrimSpace(fields.venue) # NoText THEN 500 ELSE 0)
                        + (IF fields.date # NoDate THEN 500 ELSE 0)),
     appropriate |-> TRUE,
     reason |-> NoReason]

mockModerationResult(fields) ==
    [score |-> Min(10000,
                   7500 + (IF TrimSpace(fields.title) # NoText THEN 1000 ELSE 0)
                        + (IF TrimSpace(fields.venue) # NoText THEN 500 ELSE 0)
                        + (IF fields.date # NoDate THEN 500 ELSE 0)),
     appropriate |-> TRUE,
     reason |-> NoReason]

\* What the classifier call can answer: a transport error or no choice
\* ("error"), text that is not the expected JSON ("unparsable"), or an
\* assessment.
ClassifierAnswers ==
    {[k |-> "error", f |-> Factors(0, 0, 0, 0, 0, 0), appropriate |-> TRUE, reason |-> NoReason],
     [k |-> "unparsable", f |-> Factors(0, 0, 0, 0, 0, 0), appropriate |-> TRUE, reason |-> NoReason]}
        \cup {[k |-> "ok", f |-> f, appropriate |-> TRUE, reason |-> NoReason] : f \in FactorSamples}
        \cup {[k |-> "ok", f |-> f, appropriate |-> FALSE, reason |-> "spam"] : f \in FactorSamples}
        \cup {[k |-> "ok", f |-> Factors(79, 79, 79, 79, 79, 79), appropriate |-> FALSE,
                reason |-> NoReason]}

\* ModerateEventCandidate followed by the caller's default on error
\* (processEventCandidate): the assessment the decision is taken on
ModerateEventCandidate(fields, ans) ==
    IF ans.k = "error"
    THEN [score |-> DefaultModerationScore, appropriate |-> TRUE, reason |-> NoReason]
    ELSE IF ans.k = "unparsable"
    THEN mockModerationResult(fields)
    ELSE [score |-> calculateQualityScore(ans.f), appropriate |-> ans.appropriate,
          reason |-> ans.reason]

NoMod == [score |-> 0, appropriate |-> TRUE, reason |-> NoReason]

\* Decide with the score tested before appropriateness
DecideScoreFirst(mod) ==
    IF mod.score >= AutoPublishThreshold
    THEN [decision |-> "published", reason |-> "auto-published (high quality score)"]
    ELSE IF ~mod.appropriate
    THEN [decision |-> "blocked", reason |-> mod.reason]
    ELSE [decision |-> "needs_review", reason |-> "requires manual review (low quality score)"]

\* Decide with a strict comparison against the threshold
DecideStrict(mod) ==
    IF ~mod.appropriate
    THEN [decision |-> "blocked", reason |-> mod.reason]
    ELSE IF mod.score > AutoPublishThreshold
    THEN [decision |-> "published", reason |-> "auto-published (high quality score)"]
    ELSE [decision |-> "needs_review", reason |-> "requires manual review (low quality score)"]

\* ------------------------------------------------------------ decision
Decide(mod) ==
    IF ~mod.appropriate
    THEN [decision |-> "blocked", reason |-> mod.reason]
    ELSE IF mod.score >= AutoPublishThreshold
    THEN [decision |-> "published", reason |-> "auto-published (high quality score)"]
    ELSE [decision |-> "needs_review", reason |-> "requires manual review (low quality score)"]

\* ------------------------------------------------------------ promotion
DateStr(fields) == IF fields.date # NoDate THEN fields.date ELSE fields.date_time

\* ResolveStart that also moves a date equal to now into next year
ResolveStartLax(fields, t) ==
    LET d == DateStr(fields)
    IN  IF d.k = "abs"
        THEN (IF d.t <= t THEN d.t + OneYear ELSE d.t)
        ELSE t + OneDay

ResolveStart(fields, t) ==
    LET d == DateStr(fields)
    IN  IF d.k = "abs"
        THEN (IF d.t < t THEN d.t + OneYear ELSE d.t)
        ELSE t + OneDay

\* CanonicalKey on the title as written and the full instant
CanonicalKeyExact(title, startTs) == <<title, startTs>>

CanonicalKey(title, startTs) == <<ToLower(TrimSpace(title)), FormatDate(startTs)>>

NoKey == <<NoText, -1>>

\* --------------------------------------------------------------- geocoding
NoGeo == [ok |-> FALSE, confidence |-> 0, city |-> NoText, formatted |-> NoText, loc |-> 0]

\* What GeocodeAddress can return for a non-empty address: an error, or a
\* best match (loc stands for the coordinates and the formatted address).
GeocodeAnswers ==
    {NoGeo,
     [ok |-> TRUE, confidence |-> 70, city |-> <<"c">>, formatted |-> <<"x">>, loc |-> 1],
     [ok |-> TRUE, confidence |-> GeoConfThreshold, city |-> <<"c">>,
      formatted |-> <<"y">>, loc |-> 2]}

\* extractVenueAddress: the first non-empty of venue, address (the keys
\* location and where are never marshalled)
extractVenueAddress(fields) ==
    IF fields.venue # NoText THEN fields.venue ELSE fields.address

\* ------------------------------------------------- the geocoding service
\* reference points of the stub, in 1/10000 degree
DefaultPoint == [lat |-> 377749, lng |-> -1224194]
NewYorkPoint == [lat |-> 407128, lng |-> -740060]
LosAngelesPoint == [lat |-> 340522, lng |-> -1182437]
ChicagoPoint == [lat |-> 418781, lng |-> -876298]
SeattlePoint == [lat |-> 476062, lng |-> -1223321]

NoPoint == [lat |-> 0, lng |-> 0]

GeoError(e) == [err |-> e, point |-> NoPoint, confidence |-> 0, formatted |-> NoText]

mockGeocodeResult(address) ==
    LET addressLower == ToLower(address)
    IN  [err |-> "none",
         point |->
            IF Contains(addressLower, <<"n", "e", "w", " ", "y", "o", "r", "k">>)
                    \/ Contains(addressLower, <<"n", "y">>)
            THEN NewYorkPoint
            ELSE IF Contains(addressLower,
                             <<"l", "o", "s", " ", "a", "n", "g", "e", "l", "e", "s">>)
                    \/ Contains(addressLower, <<"l", "a">>)
            THEN LosAngelesPoint
            ELSE IF Contains(addressLower, <<"c", "h", "i", "c", "a", "g", "o">>)
            THEN ChicagoPoint
            ELSE IF Contains(addressLower, <<"s", "e", "a", "t", "t", "l", "e">>)
            THEN SeattlePoint
            ELSE DefaultPoint,
         confidence |-> IF Contains(address, <<",">>) /\ NumFields(address) > 3
                        THEN 80 ELSE 70,
         formatted |-> address]

\* What the provider can answer to one request: no answer, a status other
\* than 200, a body that does not parse, no feature, a feature without
\* coordinates, or a best match with its relevance and full address.
ProviderAnswers ==
    {[k |-> x, relevance |-> 0, full |-> NoText, point |-> NoPoint] :
        x \in {"transport", "status", "parse", "nofeature", "nocoords"}}
      \cup {[k |-> "ok", relevance |-> r, full |-> f, point |-> SeattlePoint] :
              r \in {0, 90}, f \in {NoText, <<"z">>}}

geocodeWithMapbox(address, answer) ==
    IF TrimSpace(address) = NoText THEN GeoError("empty address")
    ELSE IF answer.k = "transport" THEN GeoError("geocoding request failed")
    ELSE IF answer.k = "status" THEN GeoError("geocoding API returned status")
    ELSE IF answer.k = "parse" THEN GeoError("failed to parse geocoding response")
    ELSE IF answer.k = "nofeature" THEN GeoError("no geocoding results found")
    ELSE IF answer.k = "nocoords" THEN GeoError("invalid coordinates")
    ELSE [err |-> "none", point |-> answer.point,
          confidence |-> IF answer.relevance = 0 THEN 50 ELSE answer.relevance,
          formatted |-> IF answer.full = NoText THEN address ELSE answer.full]

\* the geocoder configurations: API key and provider name
GeocoderConfigs ==
    {[key |-> "", geocoder |-> "mapbox"],
     [key |-> "your-mapbox-api-key", geocoder |-> "mapbox"],
     [key |-> "pk", geocoder |-> "mapbox"],
     [key |-> "pk", geocoder |-> "google"]}

StubMode(config) == config.key \in {"", "your-mapbox-api-key"}

GeocodeAddress(config, address, answer) ==
    IF StubMode(config) THEN mockGeocodeResult(address)
    ELSE IF config.geocoder = "mapbox" THEN geocodeWithMapbox(address, answer)
    ELSE GeoError("unsupported geocoder")

\* ------------------------------------------------------------------- store
Null == -1

\* the JSON object SaveResults stores in event_candidates.fields
MarshalFields(ef) ==
    [title |-> ef.title, date |-> NoDate, date_time |-> ef.date_time,
     venue |-> ef.venue, address |-> ef.address]

NoFields == MarshalFields(Ef(NoText, NoDate, NoText, NoText))

NoCand ==
    [id |-> 0, flyer |-> 0, event_id |-> 0, fields |-> NoFields, composite_score |-> Null,
     publish_result |-> "null", publication_reason |-> NoReason, geocode |-> NoGeo]

\* the rows of one region's events, appended after the flyer row fid
RECURSIVE CandRows(_, _, _)
CandRows(evs, fid, firstId) ==
    IF evs = <<>> THEN <<>>
    ELSE <<[id |-> firstId, flyer |-> fid, event_id |-> Head(evs).event_id,
            fields |-> MarshalFields(Head(evs).fields),
            composite_score |-> Head(evs).overall,
            publish_result |-> "null", publication_reason |-> NoReason,
            geocode |-> NoGeo]>>
         \o CandRows(Tail(evs), fid, firstId + 1)

\* SaveResults: one flyer row per region, one candidate row per event
RECURSIVE SaveRegions(_, _, _, _)
SaveRegions(regions, sub, fl, cs) ==
    IF regions = <<>> THEN [flyers |-> fl, candidates |-> cs]
    ELSE LET fid == Len(fl) + 1
             r == Head(regions)
         IN  SaveRegions(Tail(regions), sub,
                         Append(fl, [id |-> fid, submission_id |-> sub,
                                     region_id |-> r.region_id]),
                         cs \o CandRows(r.events, fid, Len(cs) + 1))

\* the candidates joined to the flyers of a submission, in row order
RECURSIVE CandidatesOf(_, _, _)
CandidatesOf(cs, fl, sub) ==
    IF cs = <<>> THEN <<>>
    ELSE (IF fl[Head(cs).flyer].submission_id = sub THEN <<Head(cs)>> ELSE <<>>)
            \o CandidatesOf(Tail(cs), fl, sub)

\* events.canonical_key is UNIQUE
UniqueKeyOK(evs, key) == \A i \in 1..Len(evs) : evs[i].canonical_key # key

\* CHECK (start_ts > created_at - INTERVAL '1 day')
StartCheckOK(startTs, createdAt) == startTs > createdAt - OneDay

\* db.Where("canonical_key = ?").First: the row's index, 0 when none
FindEvent(evs, key) ==
    IF \E i \in 1..Len(evs) : evs[i].canonical_key = key
    THEN CHOOSE i \in 1..Len(evs) :
            evs[i].canonical_key = key
            /\ \A j \in 1..Len(evs) : evs[j].canonical_key = key => i <= j
    ELSE 0

\* NewEvent that tags every row auto
NewEventAuto(key, title, startTs, via, score, venue, createdAt) ==
    [canonical_key |-> key, title |-> title, start_ts |-> startTs,
     published_via |-> "auto", quality_score |-> score, moderation_state |-> "approved",
     venue_id |-> venue, created_at |-> createdAt]

NewEvent(key, title, startTs, via, score, venue, createdAt) ==
    [canonical_key |-> key, title |-> title, start_ts |-> startTs,
     published_via |-> via, quality_score |-> score, moderation_state |-> "approved",
     venue_id |-> venue, created_at |-> createdAt]

\* ApproveExisting that leaves the existing row as it is
ApproveExistingKeep(evs, i) == evs

\* the existing-row branch of promoteToPublicEvent
ApproveExisting(evs, i) ==
    IF evs[i].moderation_state # "approved"
    THEN [evs EXCEPT ![i].moderation_state = "approved"]
    ELSE evs

\* InsertAccepted without the unique index on canonical_key
InsertAcceptedNoUnique(evs, key, startTs, createdAt) == StartCheckOK(startTs, createdAt)

\* events.canonical_key UNIQUE and the start_ts CHECK: whether db.Create
\* of an event row is accepted
InsertAccepted(evs, key, startTs, createdAt) ==
    UniqueKeyOK(evs, key) /\ StartCheckOK(startTs, createdAt)

\* ------------------------------------------------------------------ venues
NullText == <<"NULL">>

NoVenue ==
    [name |-> NoText, address_line |-> NullText, city |-> NullText,
     location |-> Null, geocode_confidence |-> Null]

\* db.Where("name = ? AND city = ?").First
FindVenue(vs, name, city) ==
    IF \E i \in 1..Len(vs) : vs[i].name = name /\ vs[i].city = city
    THEN CHOOSE i \in 1..Len(vs) :
            vs[i].name = name /\ vs[i].city = city
            /\ \A j \in 1..Len(vs) : (vs[j].name = name /\ vs[j].city = city) => i <= j
    ELSE 0

\* tx.Where("name ILIKE ?").First
FindVenueILike(vs, name) ==
    IF \E i \in 1..Len(vs) : ToLower(vs[i].name) = ToLower(name)
    THEN CHOOSE i \in 1..Len(vs) :
            ToLower(vs[i].name) = ToLower(name)
            /\ \A j \in 1..Len(vs) : ToLower(vs[j].name) = ToLower(name) => i <= j
    ELSE 0

\* venues UNIQUE(name, address_line, city, state): rows with a NULL column
\* never collide
VenueInsertOK(vs, v) ==
    \A i \in 1..Len(vs) :
        ~(vs[i].name = v.name /\ vs[i].address_line = v.address_line
          /\ vs[i].city = v.city /\ v.address_line # NullText /\ v.city # NullText)

\* ---------------------------------------------------------------- processes
IdleProc ==
    [pc |-> "idle", kind |-> "none", sub |-> 0, file |-> "none", result |-> <<>>,
     queue |-> <<>>, cand |-> NoCand, mod |-> NoMod, key |-> NoKey, start |-> 0,
     geo |-> NoGeo, vidx |-> 0, vsnap |-> NoVenue, areason |-> "",
     ret |-> "none", writes |-> <<>>, calls |-> 0, loaded |-> {}, promoted |-> {},
     saved |-> {}, failed |-> {}, promo |-> "none", conflict |-> FALSE,
     storeFailed |-> FALSE]

\* A request is served by a free handler; free handlers are interchangeable,
\* the one of least index takes it.
Free(p) == procs[p].pc = "idle" /\ \A q \in 1..(p - 1) : procs[q].pc # "idle"

Init ==
    /\ submissions = [s \in SubIds |-> "absent"]
    /\ flyers = <<>>
    /\ candidates = <<>>
    /\ events = <<>>
    /\ venues = <<>>
    /\ procs = [p \in Procs |-> IdleProc]
    /\ now = NowStart
    /\ runs = 0
    /\ fn = NoFn

\* updateSubmissionStatus, and the run's record of what it wrote
SetStatus(p, s, st, rec) ==
    /\ submissions' = [submissions EXCEPT ![s] = st]
    /\ procs' = [procs EXCEPT ![p] = [rec EXCEPT !.writes = Append(@, st)]]

allowedTypes == {"image/jpeg", "image/jpg", "image/png", "image/webp"}

ContentTypes == {"image/jpeg", "text/plain"}

\* POST /v1/uploads/signed-url
GetSignedURL(s, ct) ==
    /\ ct \in allowedTypes
    /\ submissions[s] = "absent"
    /\ submissions' = [submissions EXCEPT ![s] = "uploaded"]
    /\ UNCHANGED <<flyers, candidates, events, venues, procs, now, runs, fn>>

\* PUT /v1/uploads/{id} up to the first status write of processUploadSync.
\* sizeOK: a file part is present and at most 12MB.
UploadFile(p, s, file, sizeOK, maxRuns) ==
    /\ Free(p)
    /\ runs < maxRuns
    /\ submissions[s] # "absent"
    /\ sizeOK
    /\ runs' = runs + 1
    /\ SetStatus(p, s, "processing",
                 [IdleProc EXCEPT !.pc = "analyze", !.kind = "upload", !.sub = s,
                                  !.file = file])
    /\ UNCHANGED <<flyers, candidates, events, venues, now, fn>>

\* a request the handler answers 4xx before touching the store
UploadRejected(p, s, sizeOK) ==
    /\ Free(p)
    /\ submissions[s] = "absent" \/ ~sizeOK
    /\ UNCHANGED vars

\* AnalyzeImageFails that returns the error without the status write
AnalyzeImageFailsNoStatus(p) ==
    /\ procs[p].pc = "analyze"
    /\ procs' = [procs EXCEPT ![p] = [@ EXCEPT !.pc = "respond", !.ret = "error",
                                               !.calls = @ + 1]]
    /\ UNCHANGED <<submissions, flyers, candidates, events, venues, now, runs, fn>>

\* vision.AnalyzeImage fails: prepareImage rejects the bytes, the call
\* errors or times out, or the answer is no JSON of the schema
AnalyzeImageFails(p) ==
    /\ procs[p].pc = "analyze"
    /\ SetStatus(p, procs[p].sub, "error",
                 [procs[p] EXCEPT !.pc = "respond", !.ret = "error", !.calls = @ + 1])
    /\ UNCHANGED <<flyers, candidates, events, venues, now, runs, fn>>

AnalyzeImageOK(p, r) ==
    /\ procs[p].pc = "analyze"
    /\ procs[p].file = "jpeg"
    /\ procs' = [procs EXCEPT ![p] = [@ EXCEPT !.pc = "save", !.result = r,
                                               !.calls = @ + 1]]
    /\ UNCHANGED <<submissions, flyers, candidates, events, venues, now, runs, fn>>

\* vision.SaveResults, then status parsed
SaveResults(p) ==
    /\ procs[p].pc = "save"
    /\ LET saved == SaveRegions(procs[p].result, procs[p].sub, flyers, candidates)
       IN  /\ flyers' = saved.flyers
           /\ candidates' = saved.candidates
    /\ SetStatus(p, procs[p].sub, "parsed",
                 [procs[p] EXCEPT !.pc = "stage3", !.result = <<>>])
    /\ UNCHANGED <<events, venues, now, runs, fn>>

\* NextCandidate that gives up the remaining candidates after a failed one
NextCandidateAbort(rec) ==
    LET q == IF rec.cand.id \in rec.failed THEN <<>> ELSE Tail(rec.queue)
    IN  [rec EXCEPT !.queue = q,
                    !.pc = IF q = <<>> THEN "finish" ELSE "moderate",
                    !.cand = IF q = <<>> THEN NoCand ELSE Head(q),
                    !.mod = NoMod, !.key = NoKey, !.start = 0, !.promo = "none",
                    !.conflict = FALSE, !.geo = NoGeo, !.vidx = 0, !.vsnap = NoVenue]

\* where a run goes once the candidate at the head of its queue is done
NextCandidate(rec) ==
    LET q == Tail(rec.queue)
    IN  [rec EXCEPT !.queue = q,
                    !.pc = IF q = <<>> THEN "finish" ELSE "moderate",
                    !.cand = IF q = <<>> THEN NoCand ELSE Head(q),
                    !.mod = NoMod, !.key = NoKey, !.start = 0, !.promo = "none",
                    !.conflict = FALSE, !.geo = NoGeo, !.vidx = 0, !.vsnap = NoVenue]

\* processStage3 that loads only the candidates without a decision
processStage3Undecided(p) ==
    /\ procs[p].pc = "stage3"
    /\ LET q == SelectSeq(CandidatesOf(candidates, flyers, procs[p].sub),
                          LAMBDA c : c.publish_result = "null")
       IN  procs' = [procs EXCEPT ![p] =
                [@ EXCEPT !.queue = q,
                          !.loaded = {q[i].id : i \in 1..Len(q)},
                          !.pc = IF q = <<>> THEN "finish" ELSE "moderate",
                          !.cand = IF q = <<>> THEN NoCand ELSE Head(q)]]
    /\ UNCHANGED <<submissions, flyers, candidates, events, venues, now, runs, fn>>

\* processStage3: load the submission's candidates
processStage3(p) ==
    /\ procs[p].pc = "stage3"
    /\ LET q == CandidatesOf(candidates, flyers, procs[p].sub)
       IN  procs' = [procs EXCEPT ![p] =
                [@ EXCEPT !.queue = q,
                          !.loaded = {q[i].id : i \in 1..Len(q)},
                          !.pc = IF q = <<>> THEN "finish" ELSE "moderate",
                          !.cand = IF q = <<>> THEN NoCand ELSE Head(q)]]
    /\ UNCHANGED <<submissions, flyers, candidates, events, venues, now, runs, fn>>

\* ShouldPromote that also promotes what goes to manual review
ShouldPromoteReview(decision) == decision \in {"published", "needs_review"}

\* whether processEventCandidate calls promoteToPublicEvent
ShouldPromote(decision) == decision = "published"

\* processEventCandidate from the moderation call to promoteToPublicEvent's
\* lookup by canonical_key (upload.go): assessment, decision and, for a
\* candidate to promote, the title check, the start time, the key and the
\* existing-row branch.
Moderate(p, ans) ==
    /\ procs[p].pc = "moderate"
    /\ LET c == procs[p].cand
           mod == ModerateEventCandidate(c.fields, ans)
           d == Decide(mod)
           c1 == [c EXCEPT !.composite_score = mod.score,
                           !.publish_result = d.decision,
                           !.publication_reason = d.reason]
           title == c.fields.title
           startTs == ResolveStart(c.fields, now)
           key == CanonicalKey(title, startTs)
           i == FindEvent(events, key)
           rec == [procs[p] EXCEPT !.cand = c1, !.mod = mod,
                                   !.failed = IF ans.k = "error" THEN @ \cup {c.id} ELSE @,
                                   !.pc = "geocode"]
       IN  IF ~ShouldPromote(d.decision)
           THEN /\ procs' = [procs EXCEPT ![p] = rec]
                /\ UNCHANGED events
           ELSE IF title = NoText
           THEN /\ procs' = [procs EXCEPT ![p] =
                        [rec EXCEPT !.promoted = @ \cup {c.id}, !.promo = "notitle"]]
                /\ UNCHANGED events
           ELSE IF i # 0
           THEN /\ events' = ApproveExisting(events, i)
                /\ procs' = [procs EXCEPT ![p] =
                        [rec EXCEPT !.promoted = @ \cup {c.id}, !.key = key,
                                    !.start = startTs,
                                    !.promo = IF events[i].moderation_state # "approved"
                                              THEN "upgraded" ELSE "noop"]]
           ELSE /\ procs' = [procs EXCEPT ![p] =
                        [rec EXCEPT !.promoted = @ \cup {c.id}, !.key = key,
                                    !.start = startTs, !.promo = "pending",
                                    !.pc = "insert"]]
                /\ UNCHANGED events
    /\ UNCHANGED <<submissions, flyers, candidates, venues, now, runs, fn>>

\* promoteToPublicEvent (upload.go): db.Create of the new event row; an
\* error is returned to processEventCandidate, which logs it
PromoteInsert(p) ==
    /\ procs[p].pc = "insert"
    /\ procs[p].kind = "upload"
    /\ LET r == procs[p]
       IN  IF InsertAccepted(events, r.key, r.start, now)
           THEN /\ events' = Append(events,
                        NewEvent(r.key, r.cand.fields.title, r.start, "auto",
                                 r.cand.composite_score, 0, now))
                /\ procs' = [procs EXCEPT ![p] = [r EXCEPT !.promo = "inserted",
                                                           !.pc = "geocode"]]
           ELSE /\ UNCHANGED events
                /\ procs' = [procs EXCEPT ![p] =
                        [r EXCEPT !.promo = "error",
                                  !.conflict = ~UniqueKeyOK(events, r.key),
                                  !.pc = "geocode"]]
    /\ UNCHANGED <<submissions, flyers, candidates, venues, now, runs, fn>>

\* Geocode that sends a candidate to review when its geocoding fails
GeocodeGates(p, g) ==
    /\ procs[p].pc = "geocode"
    /\ LET r == procs[p]
           addr == extractVenueAddress(r.cand.fields)
       IN  IF addr = NoText
           THEN /\ g = NoGeo
                /\ procs' = [procs EXCEPT ![p] = [r EXCEPT !.pc = "savecand"]]
           ELSE IF ~g.ok
           THEN procs' = [procs EXCEPT ![p] =
                    [r EXCEPT !.pc = "savecand", !.failed = @ \cup {r.cand.id},
                              !.cand.publish_result = "needs_review"]]
           ELSE procs' = [procs EXCEPT ![p] =
                    [r EXCEPT !.cand.geocode = g, !.geo = g, !.pc = "savecand"]]
    /\ UNCHANGED <<submissions, flyers, candidates, events, venues, now, runs, fn>>

\* Geocode with a strict comparison against the threshold
GeocodeStrict(p, g) ==
    /\ procs[p].pc = "geocode"
    /\ LET r == procs[p]
           f == r.cand.fields
           addr == extractVenueAddress(f)
       IN  IF addr = NoText
           THEN /\ g = NoGeo
                /\ procs' = [procs EXCEPT ![p] = [r EXCEPT !.pc = "savecand"]]
           ELSE IF ~g.ok
           THEN procs' = [procs EXCEPT ![p] =
                    [r EXCEPT !.pc = "savecand", !.failed = @ \cup {r.cand.id}]]
           ELSE IF g.confidence > GeoConfThreshold /\ f.venue # NoText
           THEN LET i == FindVenue(venues, f.venue, g.city)
                IN  procs' = [procs EXCEPT ![p] =
                        [r EXCEPT !.cand.geocode = g, !.geo = g, !.vidx = i,
                                  !.vsnap = IF i = 0 THEN NoVenue ELSE venues[i],
                                  !.pc = "venue"]]
           ELSE procs' = [procs EXCEPT ![p] =
                    [r EXCEPT !.cand.geocode = g, !.geo = g, !.pc = "savecand"]]
    /\ UNCHANGED <<submissions, flyers, candidates, events, venues, now, runs, fn>>

\* processEventCandidate, geocoding: no address, or the geocoder's answer
\* and createOrUpdateVenue's lookup
Geocode(p, g) ==
    /\ procs[p].pc = "geocode"
    /\ LET r == procs[p]
           f == r.cand.fields
           addr == extractVenueAddress(f)
       IN  IF addr = NoText
           THEN /\ g = NoGeo
                /\ procs' = [procs EXCEPT ![p] = [r EXCEPT !.pc = "savecand"]]
           ELSE IF ~g.ok
           THEN procs' = [procs EXCEPT ![p] =
                    [r EXCEPT !.pc = "savecand", !.failed = @ \cup {r.cand.id}]]
           ELSE IF g.confidence >= GeoConfThreshold /\ f.venue # NoText
           THEN LET i == FindVenue(venues, f.venue, g.city)
                IN  procs' = [procs EXCEPT ![p] =
                        [r EXCEPT !.cand.geocode = g, !.geo = g, !.vidx = i,
                                  !.vsnap = IF i = 0 THEN NoVenue ELSE venues[i],
                                  !.pc = "venue"]]
           ELSE procs' = [procs EXCEPT ![p] =
                    [r EXCEPT !.cand.geocode = g, !.geo = g, !.pc = "savecand"]]
    /\ UNCHANGED <<submissions, flyers, candidates, events, venues, now, runs, fn>>

\* VenueWrite that overwrites the stored geocode without comparing
VenueWriteNoCompare(p) ==
    /\ procs[p].pc = "venue"
    /\ LET r == procs[p]
           g == r.geo
           v == [name |-> r.cand.fields.venue, address_line |-> g.formatted,
                 city |-> g.city, location |-> g.loc,
                 geocode_confidence |-> g.confidence]
       IN  /\ venues' =
                IF r.vidx = 0
                THEN (IF VenueInsertOK(venues, v) THEN Append(venues, v) ELSE venues)
                ELSE [venues EXCEPT ![r.vidx] =
                        [r.vsnap EXCEPT !.location = g.loc,
                                        !.geocode_confidence = g.confidence,
                                        !.address_line = g.formatted]]
           /\ procs' = [procs EXCEPT ![p] = [r EXCEPT !.pc = "savecand"]]
    /\ UNCHANGED <<submissions, flyers, candidates, events, now, runs, fn>>

\* createOrUpdateVenue: create the venue, or upgrade the row read before
\* when the new confidence is higher
VenueWrite(p) ==
    /\ procs[p].pc = "venue"
    /\ LET r == procs[p]
           g == r.geo
           v == [name |-> r.cand.fields.venue, address_line |-> g.formatted,
                 city |-> g.city, location |-> g.loc,
                 geocode_confidence |-> g.confidence]
       IN  /\ venues' =
                IF r.vidx = 0
                THEN (IF VenueInsertOK(venues, v) THEN Append(venues, v) ELSE venues)
                ELSE IF r.vsnap.geocode_confidence = Null
                        \/ g.confidence > r.vsnap.geocode_confidence
                THEN [venues EXCEPT ![r.vidx] =
                        [r.vsnap EXCEPT !.location = g.loc,
                                        !.geocode_confidence = g.confidence,
                                        !.address_line = g.formatted]]
                ELSE venues
           /\ procs' = [procs EXCEPT ![p] = [r EXCEPT !.pc = "savecand"]]
    /\ UNCHANGED <<submissions, flyers, candidates, events, now, runs, fn>>

\* SaveCandidate that skips the save of a candidate whose promotion failed
SaveCandidateUnlessFailed(p) ==
    /\ procs[p].pc = "savecand"
    /\ LET r == procs[p]
       IN  /\ candidates' = IF r.promo \in {"notitle", "error"} THEN candidates
                            ELSE [candidates EXCEPT ![r.cand.id] = r.cand]
           /\ procs' = [procs EXCEPT ![p] =
                    NextCandidate([r EXCEPT !.saved = @ \cup {r.cand.id}])]
    /\ UNCHANGED <<submissions, flyers, events, venues, now, runs, fn>>

\* processEventCandidate: db.Save of the whole candidate row, then the
\* loop of processStage3 goes on
SaveCandidate(p) ==
    /\ procs[p].pc = "savecand"
    /\ LET r == procs[p]
       IN  /\ candidates' = [candidates EXCEPT ![r.cand.id] = r.cand]
           /\ procs' = [procs EXCEPT ![p] =
                    NextCandidate([r EXCEPT !.saved = @ \cup {r.cand.id}])]
    /\ UNCHANGED <<submissions, flyers, events, venues, now, runs, fn>>

\* Finish that answers without the final status write
FinishNoStatus(p) ==
    /\ procs[p].pc = "finish"
    /\ procs' = [procs EXCEPT ![p] = [@ EXCEPT !.pc = "respond", !.ret = "ok"]]
    /\ UNCHANGED <<submissions, flyers, candidates, events, venues, now, runs, fn>>

\* processUploadSync: final status done
Finish(p) ==
    /\ procs[p].pc = "finish"
    /\ SetStatus(p, procs[p].sub, "done",
                 [procs[p] EXCEPT !.pc = "respond", !.ret = "ok"])
    /\ UNCHANGED <<flyers, candidates, events, venues, now, runs, fn>>

\* ------------------------------------------------------- manual moderation
AdminActions == {"approve", "reject", "delete"}
\* the reason form field: empty or given
AdminReasons == {"", "r"}

\* the candidate columns ModerateEvent updates
ManualUpdate(c, publishResult, reason) ==
    [c EXCEPT !.publish_result = publishResult,
              !.publication_reason = IF reason # "" THEN reason ELSE @]

\* POST /admin/moderate/:id answered 400 (unknown action) or 404
ModerateRejected(p, cid, action) ==
    /\ Free(p)
    /\ action \notin {"approve", "reject"} \/ cid \notin 1..Len(candidates)
    /\ UNCHANGED vars

\* ModerateReject that also blocks the Events
ModerateRejectUnpublish(p, cid, reason) ==
    /\ Free(p)
    /\ cid \in 1..Len(candidates)
    /\ candidates' = [candidates EXCEPT ![cid] = ManualUpdate(@, "blocked", reason)]
    /\ events' = [i \in 1..Len(events) |-> [events[i] EXCEPT !.moderation_state = "blocked"]]
    /\ procs' = [procs EXCEPT ![p] =
            [IdleProc EXCEPT !.pc = "respond", !.kind = "admin", !.ret = "ok"]]
    /\ UNCHANGED <<submissions, flyers, venues, now, runs, fn>>

\* POST /admin/moderate/:id, action reject: one committed transaction
ModerateReject(p, cid, reason) ==
    /\ Free(p)
    /\ cid \in 1..Len(candidates)
    /\ candidates' = [candidates EXCEPT ![cid] = ManualUpdate(@, "blocked", reason)]
    /\ procs' = [procs EXCEPT ![p] =
            [IdleProc EXCEPT !.pc = "respond", !.kind = "admin", !.ret = "ok"]]
    /\ UNCHANGED <<submissions, flyers, events, venues, now, runs, fn>>

\* POST /admin/moderate/:id, action approve, up to promoteToPublicEvent's
\* lookup (admin.go): missing title rolls back; an existing row is approved
\* in place and the transaction commits; otherwise the insert follows.
ModerateApprove(p, cid, reason) ==
    /\ Free(p)
    /\ cid \in 1..Len(candidates)
    /\ LET c == candidates[cid]
           title == c.fields.title
           startTs == ResolveStart(c.fields, now)
           key == CanonicalKey(title, startTs)
           i == FindEvent(events, key)
           rec == [IdleProc EXCEPT !.pc = "respond", !.kind = "admin", !.cand = c,
                                   !.areason = reason, !.promoted = {cid}]
       IN  IF title = NoText
           THEN /\ procs' = [procs EXCEPT ![p] =
                        [rec EXCEPT !.promo = "notitle", !.ret = "error"]]
                /\ UNCHANGED <<candidates, events>>
           ELSE IF i # 0
           THEN /\ events' = ApproveExisting(events, i)
                /\ candidates' = [candidates EXCEPT ![cid] =
                                    ManualUpdate(@, "published", reason)]
                /\ procs' = [procs EXCEPT ![p] =
                        [rec EXCEPT !.key = key, !.start = startTs, !.ret = "ok",
                                    !.promo = IF events[i].moderation_state # "approved"
                                              THEN "upgraded" ELSE "noop"]]
           ELSE /\ procs' = [procs EXCEPT ![p] =
                        [rec EXCEPT !.key = key, !.start = startTs, !.promo = "pending",
                                    !.pc = "adminInsert"]]
                /\ UNCHANGED <<candidates, events>>
    /\ UNCHANGED <<submissions, flyers, venues, now, runs, fn>>

\* AdminInsert whose failure keeps the candidate update
AdminInsertNoRollback(p) ==
    /\ procs[p].pc = "adminInsert"
    /\ LET r == procs[p]
           f == r.cand.fields
           vi == IF f.venue = NoText THEN 0 ELSE FindVenueILike(venues, f.venue)
           v == [NoVenue EXCEPT !.name = f.venue,
                                !.address_line = IF f.address # NoText THEN f.address
                                                 ELSE NullText]
           vOK == f.venue = NoText \/ vi # 0 \/ VenueInsertOK(venues, v)
           vid == IF f.venue = NoText THEN 0 ELSE IF vi # 0 THEN vi ELSE Len(venues) + 1
           eOK == InsertAccepted(events, r.key, r.start, now)
       IN  IF vOK /\ eOK
           THEN /\ venues' = IF f.venue # NoText /\ vi = 0 THEN Append(venues, v)
                             ELSE venues
                /\ events' = Append(events,
                        NewEvent(r.key, f.title, r.start, "manual",
                                 r.cand.composite_score, vid, now))
                /\ candidates' = [candidates EXCEPT ![r.cand.id] =
                                    ManualUpdate(@, "published", r.areason)]
                /\ procs' = [procs EXCEPT ![p] =
                        [r EXCEPT !.pc = "respond", !.promo = "inserted", !.ret = "ok"]]
           ELSE /\ UNCHANGED <<venues, events>>
                /\ candidates' = [candidates EXCEPT ![r.cand.id] =
                                    ManualUpdate(@, "published", r.areason)]
                /\ procs' = [procs EXCEPT ![p] =
                        [r EXCEPT !.pc = "respond", !.promo = "error",
                                  !.conflict = vOK /\ ~UniqueKeyOK(events, r.key),
                                  !.ret = "error"]]
    /\ UNCHANGED <<submissions, flyers, now, runs, fn>>

\* promoteToPublicEvent (admin.go) from the venue lookup to tx.Create of the
\* event, then ModerateEvent's commit or rollback
AdminInsert(p) ==
    /\ procs[p].pc = "adminInsert"
    /\ LET r == procs[p]
           f == r.cand.fields
           vi == IF f.venue = NoText THEN 0 ELSE FindVenueILike(venues, f.venue)
           v == [NoVenue EXCEPT !.name = f.venue,
                                !.address_line = IF f.address # NoText THEN f.address
                                                 ELSE NullText]
           vOK == f.venue = NoText \/ vi # 0 \/ VenueInsertOK(venues, v)
           vid == IF f.venue = NoText THEN 0 ELSE IF vi # 0 THEN vi ELSE Len(venues) + 1
           eOK == InsertAccepted(events, r.key, r.start, now)
       IN  IF vOK /\ eOK
           THEN /\ venues' = IF f.venue # NoText /\ vi = 0 THEN Append(venues, v)
                             ELSE venues
                /\ events' = Append(events,
                        NewEvent(r.key, f.title, r.start, "manual",
                                 r.cand.composite_score, vid, now))
                /\ candidates' = [candidates EXCEPT ![r.cand.id] =
                                    ManualUpdate(@, "published", r.areason)]
                /\ procs' = [procs EXCEPT ![p] =
                        [r EXCEPT !.pc = "respond", !.promo = "inserted", !.ret = "ok"]]
           ELSE /\ UNCHANGED <<venues, events, candidates>>
                /\ procs' = [procs EXCEPT ![p] =
                        [r EXCEPT !.pc = "respond", !.promo = "error",
                                  !.conflict = vOK /\ ~UniqueKeyOK(events, r.key),
                                  !.ret = "error"]]
    /\ UNCHANGED <<submissions, flyers, now, runs, fn>>

\* the handler writes its response and returns
Respond(p) ==
    /\ procs[p].pc = "respond"
    /\ procs' = [procs EXCEPT ![p] = IdleProc]
    /\ UNCHANGED <<submissions, flyers, candidates, events, venues, now, runs, fn>>

\* ----------------------------------------------------------------- events
validReasons == {"spam", "duplicate", "bad_location", "inappropriate"}

UnpublishReasons == {"spam", "other"}

\* List without the filter on moderation_state
ListAll(evs, t, includePast) ==
    {i \in 1..Len(evs) : includePast \/ evs[i].start_ts > t}

\* GET /v1/events at instant t: the rows the query selects
List(evs, t, includePast) ==
    {i \in 1..Len(evs) : /\ evs[i].moderation_state = "approved"
                         /\ includePast \/ evs[i].start_ts > t}

\* Unpublish that does not validate the reason
UnpublishHandlerAnyReason(evs, eid, reason) ==
    IF eid \notin 1..Len(evs) THEN [status |-> 404, events |-> evs]
    ELSE [status |-> 200, events |-> [evs EXCEPT ![eid].moderation_state = "blocked"]]

\* POST /v1/events/{id}/unpublish: the response status and the events table
\* it leaves
UnpublishHandler(evs, eid, reason) ==
    IF reason \notin validReasons THEN [status |-> 400, events |-> evs]
    ELSE IF eid \notin 1..Len(evs) THEN [status |-> 404, events |-> evs]
    ELSE [status |-> 200, events |-> [evs EXCEPT ![eid].moderation_state = "blocked"]]

\* an unpublish request that is answered 200
Unpublish(eid, reason) ==
    /\ UnpublishHandler(events, eid, reason).status = 200
    /\ events' = UnpublishHandler(events, eid, reason).events
    /\ UNCHANGED <<submissions, flyers, candidates, venues, procs, now, runs, fn>>

\* time passes
Tick ==
    /\ now < NowStart + MaxTick
    /\ now' = now + 1
    /\ UNCHANGED <<submissions, flyers, candidates, events, venues, procs, runs, fn>>

\* The handlers over the processes P, with extraction results R, classifier
\* answers A, geocoder answers G, reasons AR of manual moderation, and at most N uploads.
System(P, R, A, G, AR, N) ==
    \/ \E s \in SubIds, ct \in ContentTypes : GetSignedURL(s, ct)
    \/ \E p \in P, s \in SubIds, f \in Files, ok \in BOOLEAN : UploadFile(p, s, f, ok, N)
    \/ \E p \in P, s \in SubIds, ok \in BOOLEAN : UploadRejected(p, s, ok)
    \/ \E p \in P : AnalyzeImageFails(p)
    \/ \E p \in P, r \in R : AnalyzeImageOK(p, r)
    \/ \E p \in P : SaveResults(p)
    \/ \E p \in P : processStage3(p)
    \/ \E p \in P, ans \in A : Moderate(p, ans)
    \/ \E p \in P : PromoteInsert(p)
    \/ \E p \in P, g \in G : Geocode(p, g)
    \/ \E p \in P : VenueWrite(p)
    \/ \E p \in P : SaveCandidate(p)
    \/ \E p \in P : Finish(p)
    \/ \E p \in P, cid \in 1..(Len(candidates) + 1), a \in AdminActions :
            ModerateRejected(p, cid, a)
    \/ \E p \in P, cid \in 1..Len(candidates), r \in AR : ModerateReject(p, cid, r)
    \/ \E p \in P, cid \in 1..Len(candidates), r \in AR : ModerateApprove(p, cid, r)
    \/ \E p \in P : AdminInsert(p)
    \/ \E p \in P : Respond(p)
    \/ \E eid \in 1..Len(events), r \in UnpublishReasons : Unpublish(eid, r)

\* inputs of the concurrent system
ConcFields ==
    { Ef(<<"J">>, Garbage, NoText, NoText),
      Ef(<<" ", "j">>, NoDate, <<"H">>, <<"a">>) }
ConcResults == {<<[region_id |-> 1, events |-> <<Ev(1, f)>>]>> : f \in ConcFields}
ConcAnswers == {x \in ClassifierAnswers : x.k = "ok" /\ x.appropriate}
ConcGeocodes == {x \in GeocodeAnswers : x.confidence >= GeoConfThreshold}

\* Two handlers at a time.
Next == System(Procs, ConcResults, ConcAnswers, ConcGeocodes, {""}, MaxRuns)

Spec == Init /\ [][Next]_vars

\* One handler at a time, every input, time passing.
NextSeq ==
    \/ System({1}, Results, ClassifierAnswers, GeocodeAnswers, AdminReasons, MaxRunsSeq)
    \/ Tick

SpecSeq == Init /\ [][NextSeq]_vars

\* inputs of the venue systems: one event at venue H, geocoded below, at and
\* above the threshold
VenueFields == {Ef(<<"J">>, Garbage, <<"H">>, NoText)}
VenueResults == {<<[region_id |-> 1, events |-> <<Ev(1, f)>>]>> : f \in VenueFields}
VenueGeocodes ==
    GeocodeAnswers
        \cup {[ok |-> TRUE, confidence |-> 90, city |-> <<"c">>, formatted |-> <<"z">>,
               loc |-> 3]}

\* One handler at a time, repeated runs over one venue.
NextVenueSeq == System({1}, VenueResults, ConcAnswers, VenueGeocodes, {""}, MaxRuns)

SpecVenueSeq == Init /\ [][NextVenueSeq]_vars

\* Two handlers at a time over one venue.
NextVenue ==
    System(Procs, VenueResults, {x \in ConcAnswers : x.f = Factors(80, 80, 80, 80, 80, 80)},
           {x \in VenueGeocodes : x.confidence >= GeoConfThreshold}, {""}, MaxRuns)

SpecVenue == Init /\ [][NextVenue]_vars

\* ------------------------------------------------------- store failures
\* A statement of a pipeline run fails because the store is unreachable.

\* vision.SaveResults fails at its first db.Create, or (partial) at the
\* db.Create of the first candidate, after the first flyer row was created
\* outside any transaction: status error
SaveResultsFails(p, partial) ==
    /\ procs[p].pc = "save"
    /\ procs[p].result # <<>>
    /\ partial => Head(procs[p].result).events # <<>>
    /\ flyers' = IF partial
                 THEN Append(flyers, [id |-> Len(flyers) + 1, submission_id |-> procs[p].sub,
                                      region_id |-> Head(procs[p].result).region_id])
                 ELSE flyers
    /\ SetStatus(p, procs[p].sub, "error",
                 [procs[p] EXCEPT !.pc = "respond", !.ret = "error", !.result = <<>>,
                                  !.storeFailed = TRUE])
    /\ UNCHANGED <<candidates, events, venues, now, runs, fn>>

\* LoadCandidatesFails that deletes the rows saved for the submission
LoadCandidatesFailsCleanup(p) ==
    /\ procs[p].pc = "stage3"
    /\ flyers' = SelectSeq(flyers, LAMBDA f : f.submission_id # procs[p].sub)
    /\ candidates' = SelectSeq(candidates,
                               LAMBDA c : flyers[c.flyer].submission_id # procs[p].sub)
    /\ SetStatus(p, procs[p].sub, "error",
                 [procs[p] EXCEPT !.pc = "respond", !.ret = "error", !.storeFailed = TRUE])
    /\ UNCHANGED <<events, venues, now, runs, fn>>

\* processStage3: the query loading the candidates fails: status error
LoadCandidatesFails(p) ==
    /\ procs[p].pc = "stage3"
    /\ SetStatus(p, procs[p].sub, "error",
                 [procs[p] EXCEPT !.pc = "respond", !.ret = "error", !.storeFailed = TRUE])
    /\ UNCHANGED <<flyers, candidates, events, venues, now, runs, fn>>

\* processEventCandidate: db.Save of the candidate fails; processStage3 logs
\* the error and goes on with the next candidate
SaveCandidateFails(p) ==
    /\ procs[p].pc = "savecand"
    /\ procs' = [procs EXCEPT ![p] = NextCandidate([procs[p] EXCEPT !.storeFailed = TRUE])]
    /\ UNCHANGED <<submissions, flyers, candidates, events, venues, now, runs, fn>>

\* processUploadSync: the final status write fails and its error is returned
FinishFails(p) ==
    /\ procs[p].pc = "finish"
    /\ procs' = [procs EXCEPT ![p] = [@ EXCEPT !.pc = "respond", !.ret = "error",
                                               !.storeFailed = TRUE]]
    /\ UNCHANGED <<submissions, flyers, candidates, events, venues, now, runs, fn>>

\* One handler at a time over a store that can fail.
NextFault ==
    \/ System({1}, ConcResults, ConcAnswers, GeocodeAnswers, {""}, MaxRunsSeq)
    \/ \E p \in {1}, partial \in BOOLEAN : SaveResultsFails(p, partial)
    \/ \E p \in {1} : LoadCandidatesFails(p)
    \/ \E p \in {1} : SaveCandidateFails(p)
    \/ \E p \in {1} : FinishFails(p)

SpecFault == Init /\ [][NextFault]_vars

\* inputs of the two-candidate scenario: one region with two events of
\* different titles, one of them at venue H with address "123 Main St,
\* Springfield, IL"; each classified appropriate with all factors 0.85 or
\* all factors 0.50
ScenarioResults ==
    {<<[region_id |-> 1, events |-> <<Ev(1, a), Ev(2, b)>>]>> :
        a \in {Ef(<<"J">>, d, <<"H">>, AddrMain) : d \in {NoDate, DateTxt(NowStart + 1)}},
        b \in {Ef(<<"K">>, NoDate, NoText, NoText)}}
      \cup {<<[region_id |-> 1, events |-> <<Ev(1, b), Ev(2, a)>>]>> :
        a \in {Ef(<<"J">>, d, <<"H">>, AddrMain) : d \in {NoDate, DateTxt(NowStart + 1)}},
        b \in {Ef(<<"K">>, NoDate, NoText, NoText)}}

ScenarioAnswers ==
    {[k |-> "ok", f |-> Factors(x, x, x, x, x, x), appropriate |-> TRUE, reason |-> NoReason] :
        x \in {85, 50}}

\* One handler at a time over the two-candidate scenario.
NextScenario ==
    System({1}, ScenarioResults, ScenarioAnswers, GeocodeAnswers, {""}, MaxRunsSeq)

SpecScenario == Init /\ [][NextScenario]_vars

\* ------------------------------------------- the service functions alone
\* The scorer, the heuristic and the geocoder applied to one input each:
\* the initial state holds the call, the step applies the function.
FactorSteps == 2

FactorLevels == {(100 * i) \div FactorSteps : i \in 0..FactorSteps}

FactorVectors ==
    {Factors(a, b, c, d, e, f) :
        a \in FactorLevels, b \in FactorLevels, c \in FactorLevels,
        d \in FactorLevels, e \in FactorLevels, f \in FactorLevels}

HeuristicFields ==
    {MarshalFields(Ef(t, d, v, NoText)) :
        t \in {NoText, <<" ">>, <<"J">>},
        d \in {NoDate, Garbage, DateTxt(NowStart)},
        v \in {NoText, <<" ">>, <<"H">>}}

Addresses ==
    {NoText, <<" ">>, AddrMain,
     \* "Seattle"
     <<"S", "e", "a", "t", "t", "l", "e">>,
     \* "1 Pike St, Seattle, WA"
     <<"1", " ", "P", "i", "k", "e", " ", "S", "t", ",", " ", "S", "e",
      "a", "t", "t", "l", "e", ",", " ", "W", "A">>,
     \* "Lake St, Seattle"
     <<"L", "a", "k", "e", " ", "S", "t", ",", " ", "S", "e", "a", "t",
      "t", "l", "e">>,
     \* "Boise"
     <<"B", "o", "i", "s", "e">>,
     \* "Chicago"
     <<"C", "h", "i", "c", "a", "g", "o">>,
     \* "NY"
     <<"N", "Y">>}

\* events tables of up to two rows with different keys, each approved or
\* blocked
EventTables ==
    {<<>>}
      \cup {<<[NewEvent(<<<<"j">>, 4>>, <<"J">>, NowStart, "auto", 8000, 0, NowStart)
                    EXCEPT !.moderation_state = a]>> : a \in {"approved", "blocked"}}
      \cup {<<[NewEvent(<<<<"j">>, 4>>, <<"J">>, NowStart, "auto", 8000, 0, NowStart)
                    EXCEPT !.moderation_state = a],
              [NewEvent(<<<<"k">>, 4>>, <<"K">>, NowStart, "manual", 5000, 0, NowStart)
                    EXCEPT !.moderation_state = b]>> :
                a \in {"approved", "blocked"}, b \in {"approved", "blocked"}}

GeocodeCalls ==
    {[config |-> c, address |-> a, answer |-> x] :
        c \in GeocoderConfigs, a \in Addresses, x \in ProviderAnswers}

FnCalls ==
    {[op |-> "calculateQualityScore", in |-> f, out |-> <<>>, done |-> FALSE] :
        f \in FactorVectors}
      \cup {[op |-> "mockModerationResult", in |-> f, out |-> <<>>, done |-> FALSE] :
              f \in HeuristicFields}
      \cup {[op |-> "GeocodeAddress", in |-> c, out |-> <<>>, done |-> FALSE] :
              c \in GeocodeCalls}
      \cup {[op |-> "Unpublish", in |-> [events |-> t, eid |-> e, reason |-> r],
             out |-> <<>>, done |-> FALSE] :
              t \in EventTables, e \in 1..3, r \in validReasons \cup {"other"}}

InitFn ==
    /\ submissions = [s \in SubIds |-> "absent"]
    /\ flyers = <<>>
    /\ candidates = <<>>
    /\ events = <<>>
    /\ venues = <<>>
    /\ procs = [p \in Procs |-> IdleProc]
    /\ now = NowStart
    /\ runs = 0
    /\ fn \in FnCalls

Frame == UNCHANGED <<submissions, flyers, candidates, events, venues, procs, now, runs>>

ApplyQualityScore ==
    /\ fn.op = "calculateQualityScore" /\ ~fn.done
    /\ fn' = [fn EXCEPT !.out = calculateQualityScore(fn.in), !.done = TRUE]
    /\ Frame

ApplyHeuristic ==
    /\ fn.op = "mockModerationResult" /\ ~fn.done
    /\ fn' = [fn EXCEPT !.out = mockModerationResult(fn.in), !.done = TRUE]
    /\ Frame

ApplyGeocode ==
    /\ fn.op = "GeocodeAddress" /\ ~fn.done
    /\ fn' = [fn EXCEPT !.out = GeocodeAddress(fn.in.config, fn.in.address, fn.in.answer),
                        !.done = TRUE]
    /\ Frame

ApplyUnpublish ==
    /\ fn.op = "Unpublish" /\ ~fn.done
    /\ fn' = [fn EXCEPT !.out = UnpublishHandler(fn.in.events, fn.in.eid, fn.in.reason),
                        !.done = TRUE]
    /\ Frame

NextFn == ApplyQualityScore \/ ApplyHeuristic \/ ApplyGeocode \/ ApplyUnpublish

SpecFn == InitFn /\ [][NextFn]_vars

\* ------------------------------------------------------------ properties
RowsWithKey(key) == {i \in 1..Len(events) : events[i].canonical_key = key}

PromotionDone(p) == procs[p].promo \in {"inserted", "upgraded", "noop", "error"}

\* an upload run between its decision on a candidate and that candidate's save
Deciding(p) ==
    procs[p].kind = "upload" /\ procs[p].pc \in {"insert", "geocode", "venue", "savecand"}

\* C1: promoting a candidate again (a manual approve of a candidate that a
\* promotion already published, same fields) leaves exactly one Event row
\* with its canonical key.
C1_IdempotentPromotion ==
    \A p \in Procs :
        (procs[p].kind = "admin" /\ procs[p].pc = "respond" /\ PromotionDone(p)
            /\ procs[p].cand.publish_result = "published")
        => Cardinality(RowsWithKey(procs[p].key)) = 1

\* C2: no two Event rows have the same canonical_key.
C2_UniqueCanonicalKey ==
    \A i, j \in 1..Len(events) :
        events[i].canonical_key = events[j].canonical_key => i = j

\* two promotions raced for one key and the store refused the second insert
C2_Witness ==
    \E p \in Procs : procs[p].conflict /\ Cardinality(RowsWithKey(procs[p].key)) = 1

\* C3: a promotion whose insert lost the race for its key (unique violation)
\* goes on to the existing-row branch and reports success.
C3_LoserFallsThrough ==
    \A p \in Procs :
        procs[p].conflict => procs[p].promo \in {"upgraded", "noop"}

\* C4: an assessment with appropriate = false is decided blocked with the
\* assessment's reason, whatever the score.
C4_InappropriateBlocked ==
    \A p \in Procs :
        (Deciding(p) /\ ~procs[p].mod.appropriate)
        => /\ procs[p].cand.publish_result = "blocked"
           /\ procs[p].cand.publication_reason = procs[p].mod.reason
           /\ procs[p].promo = "none"

C4_Witness ==
    \E p \in Procs :
        /\ Deciding(p) /\ procs[p].pc = "savecand"
        /\ ~procs[p].mod.appropriate
        /\ procs[p].mod.score >= AutoPublishThreshold
        /\ procs[p].cand.publication_reason = "spam"

\* C5: an appropriate candidate is published exactly when its score is at
\* least the threshold, and goes to review otherwise, with the fixed reasons.
C5_ThresholdInclusive ==
    \A p \in Procs :
        (Deciding(p) /\ procs[p].mod.appropriate)
        => /\ procs[p].cand.composite_score = procs[p].mod.score
           /\ IF procs[p].mod.score >= AutoPublishThreshold
              THEN /\ procs[p].cand.publish_result = "published"
                   /\ procs[p].cand.publication_reason
                        = "auto-published (high quality score)"
              ELSE /\ procs[p].cand.publish_result = "needs_review"
                   /\ procs[p].cand.publication_reason
                        = "requires manual review (low quality score)"

\* a run published a candidate scoring exactly 0.80 and sent one scoring
\* 0.79 to review
C5_Witness ==
    \E p \in Procs :
        /\ Deciding(p)
        /\ procs[p].mod.appropriate /\ procs[p].mod.score = 7900
        /\ procs[p].cand.publish_result = "needs_review"
        /\ \E i \in 1..Len(candidates) :
                /\ i \in procs[p].saved
                /\ candidates[i].composite_score = AutoPublishThreshold
                /\ candidates[i].publish_result = "published"

\* C6: a run invokes promotion for a candidate if and only if it decided the
\* candidate published.
C6_PromotionOnlyIfPublished ==
    \A p \in Procs :
        Deciding(p)
        => /\ (procs[p].cand.id \in procs[p].promoted)
                <=> (procs[p].cand.publish_result = "published")
           /\ (procs[p].promo # "none") <=> (procs[p].cand.publish_result = "published")

C6_Witness ==
    \E p \in Procs :
        /\ Deciding(p) /\ procs[p].pc = "savecand"
        /\ procs[p].promoted # {}
        /\ procs[p].cand.publish_result \in {"needs_review", "blocked"}
        /\ events # <<>>

\* C7: when extraction fails the run writes status error, returns the
\* failure, has called extraction once, and saves, decides or promotes
\* nothing.
C7_ExtractionFailureHalts ==
    [][\A p \in Procs :
            (procs[p].pc = "analyze" /\ procs'[p].pc # "analyze" /\ procs'[p].pc # "save")
            => /\ procs'[p].pc = "respond"
               /\ procs'[p].ret = "error"
               /\ submissions'[procs[p].sub] = "error"
               /\ procs'[p].calls = 1
               /\ procs'[p].writes = <<"processing", "error">>
               /\ procs'[p].loaded = {} /\ procs'[p].saved = {}
               /\ procs'[p].promoted = {}
               /\ UNCHANGED <<flyers, candidates, events, venues>>]_vars

C7_Witness ==
    \E p \in Procs :
        /\ procs[p].kind = "upload" /\ procs[p].pc = "respond"
        /\ procs[p].ret = "error" /\ procs[p].file = "jpeg"
        /\ submissions[procs[p].sub] = "error"

\* C8: a run that reached the candidate stage ends with every candidate it
\* loaded moderated, decided and saved, and with status done, also when the
\* moderation or the geocoding of a candidate failed.
C8_CandidateIsolation ==
    \A p \in Procs :
        (procs[p].kind = "upload" /\ procs[p].pc = "respond"
            /\ \E i \in 1..Len(procs[p].writes) : procs[p].writes[i] = "parsed")
        => /\ procs[p].ret = "ok"
           /\ procs[p].saved = procs[p].loaded
           /\ \A c \in procs[p].saved : candidates[c].publish_result # "null"
           /\ procs[p].writes[Len(procs[p].writes)] = "done"
           /\ \A i \in 1..Len(procs[p].writes) : procs[p].writes[i] # "error"

C8_Witness ==
    \E p \in Procs :
        /\ procs[p].kind = "upload" /\ procs[p].pc = "respond" /\ procs[p].ret = "ok"
        /\ Cardinality(procs[p].loaded) = 2
        /\ Cardinality(procs[p].failed) = 1
        /\ procs[p].saved = procs[p].loaded

\* C9: a run that completes successfully writes processing, parsed, then
\* moderating and/or geocoding, then done.
C9_StatusOrder ==
    \A p \in Procs :
        (procs[p].kind = "upload" /\ procs[p].pc = "respond" /\ procs[p].ret = "ok")
        => LET w == procs[p].writes
           IN  /\ Len(w) >= 4
               /\ w[1] = "processing" /\ w[2] = "parsed" /\ w[Len(w)] = "done"
               /\ \A i \in 3..(Len(w) - 1) : w[i] \in {"moderating", "geocoding"}

\* C10: once a submission's status is done or error it never changes.
C10_TerminalStatus ==
    [][\A s \in SubIds :
            submissions[s] \in {"done", "error"} => submissions'[s] = submissions[s]]_vars

\* C11: extraction is invoked at most once per submission: when a run's
\* extraction call returns, the store holds no flyer of an earlier
\* extraction of that submission and no other run has called extraction
\* for it.
C11_ExtractOnce ==
    \A p \in Procs :
        (procs[p].kind = "upload" /\ procs[p].pc = "save")
        => /\ \A i \in 1..Len(flyers) : flyers[i].submission_id # procs[p].sub
           /\ \A q \in Procs \ {p} :
                ~(procs[q].kind = "upload" /\ procs[q].sub = procs[p].sub
                    /\ procs[q].calls >= 1)

\* C12: at most one Flyer per (submission, region_id) and at most one
\* EventCandidate per (flyer, event_id), however often the submission is
\* processed.
C12_NoDuplicateRows ==
    /\ \A i, j \in 1..Len(flyers) :
            (flyers[i].submission_id = flyers[j].submission_id
                /\ flyers[i].region_id = flyers[j].region_id) => i = j
    /\ \A i, j \in 1..Len(candidates) :
            (candidates[i].flyer = candidates[j].flyer
                /\ candidates[i].event_id = candidates[j].event_id) => i = j

\* C13: the decision, reason and score a run saves for a candidate are those
\* of its moderation assessment, whether geocoding succeeded, failed or was
\* skipped; a run never ends in error after the candidate stage began.
C13_GeocodingDoesNotGate ==
    \A p \in Procs :
        /\ (procs[p].kind = "upload" /\ procs[p].pc \in {"venue", "savecand"})
            => /\ procs[p].cand.publish_result = Decide(procs[p].mod).decision
               /\ procs[p].cand.publication_reason = Decide(procs[p].mod).reason
               /\ procs[p].cand.composite_score = procs[p].mod.score
        /\ (procs[p].kind = "upload" /\ procs[p].failed # {}) => procs[p].ret # "error"

\* a published candidate whose geocoding failed is about to be saved
C13_Witness ==
    \E p \in Procs :
        /\ procs[p].kind = "upload" /\ procs[p].pc = "savecand"
        /\ extractVenueAddress(procs[p].cand.fields) # NoText
        /\ procs[p].cand.id \in procs[p].failed
        /\ procs[p].cand.geocode = NoGeo
        /\ procs[p].mod.score >= AutoPublishThreshold
        /\ procs[p].cand.publish_result = "published"

Acts(p) == procs'[p] # procs[p]

\* C18: a promotion inserts an Event only when no row has its key, tagged
\* manual when a manual approve runs it and auto when a pipeline run does;
\* when a row has the key it inserts nothing and leaves the row approved.
C18_ManualSameRule ==
    [][\A p \in Procs :
        (Acts(p) /\ procs'[p].promo \in {"inserted", "upgraded", "noop"}
            /\ procs[p].promo \notin {"inserted", "upgraded", "noop"})
        => LET k == procs'[p].key
               via == IF procs'[p].kind = "admin" THEN "manual" ELSE "auto"
           IN  IF \E i \in 1..Len(events) : events[i].canonical_key = k
               THEN /\ procs'[p].promo \in {"upgraded", "noop"}
                    /\ Len(events') = Len(events)
                    /\ \A i \in 1..Len(events) :
                        events'[i] = IF events[i].canonical_key = k
                                     THEN [events[i] EXCEPT !.moderation_state = "approved"]
                                     ELSE events[i]
               ELSE /\ procs'[p].promo = "inserted"
                    /\ Len(events') = Len(events) + 1
                    /\ SubSeq(events', 1, Len(events)) = events
                    /\ events'[Len(events')].canonical_key = k
                    /\ events'[Len(events')].published_via = via
                    /\ events'[Len(events')].moderation_state = "approved"]_vars

\* a manual approve of a candidate the pipeline had sent to review has
\* inserted its Event
C18_Witness ==
    \E p \in Procs :
        /\ procs[p].kind = "admin" /\ procs[p].pc = "respond"
        /\ procs[p].promo = "inserted"
        /\ procs[p].cand.publish_result = "needs_review"
        /\ events[Len(events)].published_via = "manual"
        /\ events[Len(events)].canonical_key = procs[p].key

\* a text without its leading and trailing spaces
Core(s) ==
    LET idx == {i \in 1..Len(s) : s[i] # " "}
    IN  IF idx = {} THEN <<>>
        ELSE SubSeq(s, CHOOSE i \in idx : \A j \in idx : i <= j,
                       CHOOSE i \in idx : \A j \in idx : j <= i)

SameLetter(a, b) == a = b \/ {a, b} \in {{"J", "j"}, {"H", "h"}}

\* titles that differ only in letter case and surrounding spaces
SameTitle(a, b) ==
    /\ Len(Core(a)) = Len(Core(b))
    /\ \A i \in 1..Len(Core(a)) : SameLetter(Core(a)[i], Core(b)[i])

\* instants of one calendar day
SameDay(t, u) == \E d \in 0..(t + u) : {t, u} \subseteq (d * OneDay)..((d + 1) * OneDay - 1)

C20_StartResolution ==
    [][\A p \in Procs :
        (Acts(p) /\ procs[p].key = NoKey /\ procs'[p].key # NoKey)
        => LET d == procs'[p].cand.fields.date_time
           IN  procs'[p].start =
                    IF d.k = "abs"
                    THEN (IF d.t < now THEN d.t + OneYear ELSE d.t)
                    ELSE now + OneDay]_vars

\* a promotion resolved a date equal to now to that very instant
C20_Witness ==
    \E p \in Procs :
        /\ procs[p].key # NoKey
        /\ procs[p].cand.fields.date_time = DateTxt(now)
        /\ procs[p].start = now

\* a run has the geocode of its candidate, at or above the threshold, and is
\* past createOrUpdateVenue
Geocoded(p) ==
    /\ procs[p].kind = "upload" /\ procs[p].pc = "savecand"
    /\ procs[p].cand.geocode.ok
    /\ procs[p].cand.geocode.confidence >= GeoConfThreshold

VenueOf(p) ==
    {i \in 1..Len(venues) :
        venues[i].name = procs[p].cand.fields.venue
            /\ venues[i].city = procs[p].cand.geocode.city}

\* C16: once a candidate whose geocode has confidence >= the threshold is
\* processed, a Venue for it exists.
C16_VenueAtThreshold ==
    \A p \in Procs : Geocoded(p) => VenueOf(p) # {}

\* C16, for candidates that name a venue: once a candidate with a venue name
\* and a geocode of confidence >= the threshold is processed, a Venue of that
\* name and city exists; a run writes venues only with such a geocode.
C16_VenueAtThresholdNamed ==
    \A p \in Procs :
        /\ (Geocoded(p) /\ procs[p].cand.fields.venue # NoText) => VenueOf(p) # {}
        /\ (procs[p].kind = "upload" /\ procs[p].pc = "venue")
            => /\ procs[p].geo.ok
               /\ procs[p].geo.confidence >= GeoConfThreshold
               /\ procs[p].cand.fields.venue # NoText
        /\ (procs[p].kind = "upload" /\ procs[p].pc = "savecand"
                /\ procs[p].cand.geocode.confidence < GeoConfThreshold)
            => procs[p].vidx = 0 /\ procs[p].geo.confidence < GeoConfThreshold

\* a geocode of confidence exactly the threshold created the Venue
C16_Witness ==
    \E p \in Procs :
        /\ Geocoded(p)
        /\ procs[p].cand.geocode.confidence = GeoConfThreshold
        /\ procs[p].cand.fields.venue # NoText
        /\ VenueOf(p) # {}
        /\ \A i \in VenueOf(p) : venues[i].geocode_confidence = GeoConfThreshold

\* C14: with one run at a time, a stored Venue row changes only by taking
\* the location, address and confidence of a geocode whose confidence is
\* strictly greater than the stored one (or when none is stored); rows are
\* never removed, so a Venue's confidence never decreases.
C14_VenueUpgradeOnly ==
    [][/\ Len(venues') >= Len(venues)
       /\ \A i \in 1..Len(venues) :
            \/ venues'[i] = venues[i]
            \/ \E p \in Procs :
                /\ Acts(p) /\ procs[p].pc = "venue"
                /\ venues[i].geocode_confidence = Null
                    \/ procs[p].geo.confidence > venues[i].geocode_confidence
                /\ venues'[i] = [venues[i] EXCEPT
                                    !.location = procs[p].geo.loc,
                                    !.geocode_confidence = procs[p].geo.confidence,
                                    !.address_line = procs[p].geo.formatted]]_vars

\* a later run upgraded the Venue an earlier run stored at the threshold
C14_Witness ==
    \E p \in Procs :
        /\ procs[p].kind = "upload" /\ procs[p].pc = "savecand" /\ procs[p].vidx # 0
        /\ procs[p].vsnap.geocode_confidence = GeoConfThreshold
        /\ procs[p].geo.confidence > GeoConfThreshold
        /\ venues[procs[p].vidx].geocode_confidence = procs[p].geo.confidence
        /\ venues[procs[p].vidx].location = procs[p].geo.loc

\* C15: when two runs have taken geocodes of different confidence for the
\* same venue through createOrUpdateVenue, exactly one Venue row exists for
\* it and it carries the higher confidence and that geocode's location.
C15_NoLostVenueUpdate ==
    \A p, q \in Procs :
        (Geocoded(p) /\ Geocoded(q)
            /\ procs[p].cand.fields.venue = procs[q].cand.fields.venue
            /\ procs[p].cand.fields.venue # NoText
            /\ procs[p].geo.city = procs[q].geo.city
            /\ procs[p].geo.confidence > procs[q].geo.confidence)
        => /\ Cardinality(VenueOf(p)) = 1
           /\ \A i \in VenueOf(p) :
                /\ venues[i].geocode_confidence = procs[p].geo.confidence
                /\ venues[i].location = procs[p].geo.loc

\* C21: a candidate whose classifier call failed (error, timeout or empty
\* response) carries the assessment of the local heuristic: base 0.75 plus
\* the field bonuses, appropriate, no reason.
C21_FailureUsesHeuristic ==
    \A p \in Procs :
        (Deciding(p) /\ procs[p].cand.id \in procs[p].failed)
            => procs[p].mod = mockModerationResult(procs[p].cand.fields)

\* C24: a candidate row without a decision (the Moderation Stage has not run
\* for it) has no composite score.
C24_ScoreOnlyAfterModeration ==
    \A i \in 1..Len(candidates) :
        candidates[i].publish_result = "null" => candidates[i].composite_score = Null

\* C27: an upload whose bytes are not an image is rejected before the
\* pipeline: it writes no status to its submission.
C27_NonImageNeverEntersPipeline ==
    \A p \in Procs :
        (procs[p].kind = "upload" /\ procs[p].file = "notimage")
            => procs[p].writes = <<>>

\* C28: every Event inserted by the promotion of a candidate that names a
\* venue has a venue reference.
C28_PromotedEventHasVenue ==
    \A p \in Procs :
        (procs[p].promo = "inserted" /\ procs[p].cand.fields.venue # NoText)
            => \A i \in RowsWithKey(procs[p].key) : events[i].venue_id # 0

\* C22: the heuristic's score is min(1.0, 0.75 + 0.10 for a non-blank title
\* + 0.05 for a non-blank venue + 0.05 for a date), within [0.75, 0.95], with
\* appropriate true and no reason.
C22_HeuristicScore ==
    (fn.op = "mockModerationResult" /\ fn.done)
        => /\ fn.out.score =
                Min(10000,
                    7500 + (IF TrimSpace(fn.in.title) # NoText THEN 1000 ELSE 0)
                         + (IF TrimSpace(fn.in.venue) # NoText THEN 500 ELSE 0)
                         + (IF fn.in.date_time # NoDate THEN 500 ELSE 0))
           /\ fn.out.score \in 7500..9500
           /\ fn.out.appropriate
           /\ fn.out.reason = NoReason

\* C23: for factors in [0,1] the scorer's output is the weighted sum with
\* the weights (0.25, 0.20, 0.20, 0.15, 0.15, 0.05), which sum to 1.0; it lies
\* in [0,1]; raising one factor with the others fixed never lowers it.
C23_WeightedSum ==
    (fn.op = "calculateQualityScore" /\ fn.done)
        => /\ 25 + 20 + 20 + 15 + 15 + 5 = 100
           /\ fn.out = 25 * fn.in.event_details_complete + 20 * fn.in.datetime_confidence
                        + 20 * fn.in.venue_confidence + 15 * fn.in.contact_info_present
                        + 15 * fn.in.professional_looking + 5 * fn.in.text_readability
           /\ fn.out \in 0..10000
           /\ \A n \in DOMAIN fn.in : \A v \in FactorLevels :
                v >= fn.in[n] => calculateQualityScore([fn.in EXCEPT ![n] = v]) >= fn.out

C23_Witness ==
    /\ fn.op = "calculateQualityScore" /\ fn.done
    /\ fn.in = Factors(100, 100, 100, 100, 100, 100)
    /\ fn.out = 10000

\* C29: in stub mode an address containing "Seattle" resolves to the Seattle
\* reference point, with confidence 0.8 if it has a comma and more than
\* three tokens and 0.7 otherwise; an address matching no known city
\* resolves to the default point.
C29_StubSeattle ==
    (fn.op = "GeocodeAddress" /\ fn.done /\ StubMode(fn.in.config)
        /\ Contains(fn.in.address, <<"S", "e", "a", "t", "t", "l", "e">>))
        => /\ fn.out.err = "none"
           /\ fn.out.point = SeattlePoint
           /\ fn.out.confidence =
                IF Contains(fn.in.address, <<",">>) /\ NumFields(fn.in.address) > 3
                THEN 80 ELSE 70

\* C30: geocoding an empty or blank address fails with the invalid-address
\* error, with or without a credential; a provider answer without a match
\* fails with the no-result error.
C30_EmptyAddressFails ==
    (fn.op = "GeocodeAddress" /\ fn.done)
        => /\ TrimSpace(fn.in.address) = NoText => fn.out.err = "empty address"
           /\ (~StubMode(fn.in.config) /\ fn.in.config.geocoder = "mapbox"
                /\ TrimSpace(fn.in.address) # NoText /\ fn.in.answer.k = "nofeature")
                => (fn.out.err = "no geocoding results found" /\ fn.out.point = NoPoint)

\* C25: a run over one region with two appropriate candidates scored 0.85
\* and 0.50, one of them at a venue geocoded with confidence at or above the
\* threshold, ends with exactly one Event, exactly one Venue, status done,
\* and the decisions published and needs_review respectively.
C25_EndToEnd ==
    \A p \in Procs :
        (/\ procs[p].kind = "upload" /\ procs[p].pc = "respond"
         /\ Len(flyers) = 1 /\ Len(candidates) = 2
         /\ procs[p].saved = {1, 2}
         /\ {candidates[1].composite_score, candidates[2].composite_score} = {8500, 5000}
         /\ \E i \in 1..2 : /\ candidates[i].fields.venue # NoText
                            /\ candidates[i].geocode.ok
                            /\ candidates[i].geocode.confidence >= GeoConfThreshold)
            => /\ Len(events) = 1
               /\ Len(venues) = 1
               /\ submissions[procs[p].sub] = "done"
               /\ procs[p].ret = "ok"
               /\ \A i \in 1..2 :
                    candidates[i].publish_result =
                        IF candidates[i].composite_score = 8500
                        THEN "published" ELSE "needs_review"

C25_Witness ==
    /\ procs[1].kind = "upload" /\ procs[1].pc = "respond" /\ procs[1].saved = {1, 2}
    /\ candidates[1].composite_score = 8500 /\ candidates[2].composite_score = 5000
    /\ candidates[1].fields.venue # NoText
    /\ candidates[1].fields.address = AddrMain
    /\ candidates[1].geocode.confidence >= GeoConfThreshold
    /\ Len(events) = 1 /\ Len(venues) = 1 /\ submissions[1] = "done"
    /\ candidates[1].publish_result = "published"
    /\ candidates[2].publish_result = "needs_review"

\* C26: a pipeline run in which a statement of the store failed reports
\* failure and leaves the submission's status error.
C26_StoreFailureIsFatal ==
    \A p \in Procs :
        (procs[p].kind = "upload" /\ procs[p].pc = "respond" /\ procs[p].storeFailed)
            => (procs[p].ret = "error" /\ submissions[procs[p].sub] = "error")

C32_ListOnlyApproved ==
    \A ip \in BOOLEAN :
        /\ \A i \in List(events, now, ip) : events[i].moderation_state = "approved"
        /\ \A i \in 1..Len(events) :
                /\ events[i].moderation_state \in {"approved", "blocked"}
                /\ events[i].moderation_state = "blocked" => i \notin List(events, now, ip)

C32_Witness ==
    /\ Len(events) = 1
    /\ events[1].moderation_state = "blocked"
    /\ List(events, now, TRUE) = {}
    /\ events[1].published_via = "auto"

\* C33: the step in which a run fails leaves every Flyer and EventCandidate
\* row created before it in the store, unchanged; this includes the flyer
\* row of a SaveResults that failed midway.
C33_NoRollback ==
    [][\A p \in Procs :
            (procs'[p] # procs[p] /\ procs'[p].kind = "upload" /\ procs'[p].ret = "error")
                => /\ Len(flyers') >= Len(flyers)
                   /\ \A i \in 1..Len(flyers) : flyers'[i] = flyers[i]
                   /\ Len(candidates') >= Len(candidates)
                   /\ \A i \in 1..Len(candidates) : candidates'[i] = candidates[i]
                   /\ (procs[p].pc = "save" /\ flyers' # flyers)
                        => flyers'[Len(flyers')].submission_id = procs[p].sub]_vars

\* a run that failed after its extraction results were saved
C33_Witness ==
    /\ procs[1].kind = "upload" /\ procs[1].pc = "respond" /\ procs[1].ret = "error"
    /\ procs[1].writes = <<"processing", "parsed", "error">>
    /\ Len(flyers) = 1 /\ Len(candidates) = 1
    /\ flyers[1].submission_id = procs[1].sub

\* C34: every run takes up every candidate attached to its submission,
\* decided or not, and the save of a candidate overwrites its composite
\* score, decision and reason with the run's result, whatever the row held.
C34_RunRedecidesAll ==
    [][\A p \in Procs :
            (procs'[p] # procs[p] /\ procs[p].kind = "upload")
                => /\ procs[p].pc = "stage3"
                        => procs'[p].loaded =
                            {i \in 1..Len(candidates) :
                                flyers[candidates[i].flyer].submission_id = procs[p].sub}
                   /\ procs[p].pc = "savecand"
                        => LET id == procs[p].cand.id
                               d == Decide(procs[p].mod)
                           IN  /\ candidates'[id].composite_score = procs[p].mod.score
                               /\ candidates'[id].publish_result = d.decision
                               /\ candidates'[id].publication_reason = d.reason]_vars

\* a second run about to overwrite a candidate that a manual reject blocked
C34_Witness ==
    /\ runs = 2
    /\ procs[1].kind = "upload" /\ procs[1].pc = "savecand"
    /\ procs[1].loaded = {1, 2} /\ procs[1].cand.id = 1
    /\ candidates[1].publish_result = "blocked"
    /\ procs[1].cand.publish_result \in {"published", "needs_review"}

\* C35: the automatic and the manual promotion leave the same rows but for
\* the published_via tag: the Event inserted from a candidate refers to the
\* Venue that the case-insensitive lookup of the candidate's venue name finds
\* (a row that exists once the promotion is done), or to none when the
\* candidate names no venue, whichever path inserted it.
C35_SamePromotion ==
    \A p \in Procs :
        procs[p].promo = "inserted"
            => LET venue == procs[p].cand.fields.venue
               IN  /\ venue # NoText => FindVenueILike(venues, venue) # 0
                   /\ \A i \in RowsWithKey(procs[p].key) :
                        events[i].venue_id =
                            IF venue = NoText THEN 0 ELSE FindVenueILike(venues, venue)

\* C36: the start time a promotion resolves is later than the moment of
\* promotion minus one day, so the insert of the Event never fails the
\* events table's check on start_ts.
C36_ResolvedStartPassesCheck ==
    \A p \in Procs :
        procs[p].promo \in {"pending", "inserted", "error"}
            => /\ ResolveStart(procs[p].cand.fields, now) > now - OneDay
               /\ procs[p].promo = "error" => procs[p].conflict

\* C37: a promotion, automatic or manual, whose canonical key is that of an
\* unpublished (blocked) Event sets that Event back to approved and inserts
\* no row, so the Event is publicly listed again.
C37_PromotionRepublishes ==
    [][\A p \in Procs : \A i \in 1..Len(events) :
            (/\ procs[p].promo = "none"
             /\ procs'[p].promo \in {"pending", "upgraded", "noop", "inserted", "error"}
             /\ procs'[p].key = events[i].canonical_key
             /\ events[i].moderation_state = "blocked")
                => /\ procs'[p].promo = "upgraded"
                   /\ events' = [events EXCEPT ![i].moderation_state = "approved"]
                   /\ i \in List(events', now', TRUE)]_vars

\* a second run promoted a candidate onto the Event that was unpublished
C37_Witness ==
    /\ procs[1].kind = "upload" /\ procs[1].promo = "upgraded"
    /\ runs = 2
    /\ Len(events) = 1
    /\ events[1].canonical_key = procs[1].key
    /\ events[1].moderation_state = "approved"

\* C38: a manual approve is atomic: nothing it writes is visible before its
\* commit, and when its promotion fails (missing title, venue or event
\* insert error) the candidate, the Events and the Venues are as they were
\* before the request.
C38_ManualApproveAtomic ==
    [][\A p \in Procs :
            (procs'[p] # procs[p] /\ procs'[p].kind = "admin"
                /\ (procs'[p].ret = "error" \/ procs'[p].pc = "adminInsert"))
                => UNCHANGED <<candidates, events, venues>>]_vars

\* a manual approve whose event insert failed; the candidate is not published
C38_Witness ==
    /\ procs[1].kind = "admin" /\ procs[1].pc = "respond"
    /\ procs[1].ret = "error" /\ procs[1].promo = "error"
    /\ candidates[procs[1].cand.id].publish_result = "needs_review"
    /\ events = <<>>

\* C39: a manual reject changes one candidate's decision to blocked and, when
\* a reason is given, its reason, and nothing else: no Event, Venue, Flyer,
\* submission or other candidate is inserted, deleted or modified.
C39_RejectFrame ==
    [][\A p \in Procs :
            (procs[p].pc = "idle" /\ procs'[p].kind = "admin" /\ procs'[p].promoted = {})
                => /\ UNCHANGED <<events, venues, flyers, submissions>>
                   /\ \E cid \in 1..Len(candidates) : \E r \in {"r", ""} :
                        candidates' =
                            [candidates EXCEPT
                                ![cid].publish_result = "blocked",
                                ![cid].publication_reason = IF r = "" THEN @ ELSE r]]_vars

\* a manual reject, with a reason, of the candidate whose Event is published
C39_Witness ==
    /\ procs[1].kind = "admin" /\ procs[1].pc = "respond" /\ procs[1].promoted = {}
    /\ Len(candidates) = 1
    /\ candidates[1].publish_result = "blocked"
    /\ candidates[1].publication_reason = "r"
    /\ Len(events) = 1
    /\ events[1].moderation_state = "approved"

\* C40: with the default auto-publish threshold 0.80, a candidate assessed by
\* the heuristic is never decided blocked, and one with a non-blank title
\* scores at least 0.85 and is decided published.
C40_HeuristicPublishes ==
    (fn.op = "mockModerationResult" /\ fn.done)
        => /\ AutoPublishThreshold = 8000
           /\ Decide(fn.out).decision # "blocked"
           /\ TrimSpace(fn.in.title) # NoText
                => (fn.out.score >= 8500 /\ Decide(fn.out).decision = "published")

C40_Witness ==
    /\ fn.op = "mockModerationResult" /\ fn.done
    /\ fn.in.title = <<"J">> /\ fn.in.venue = NoText
    /\ fn.out.score = 8500
    /\ Decide(fn.out).decision = "published"

====
